---- MODULE Spec2Model ----
(***************************************************************************)
(* A model of the gdprclient library (src/gdprclientlibrary.go): the       *)
(* failure classification ShouldRetry, the backoff computation             *)
(* calculateBackoff and the retry loop doRequestWithRetry, together with   *)
(* the part of net/http the loop relies on (http.Request.Clone,            *)
(* http.Client.Do, the response body's Close).                             *)
(*                                                                         *)
(* Durations are counted in milliseconds (the code counts nanoseconds in   *)
(* an int64; every policy value used here is a whole number of             *)
(* milliseconds).  float64 values are modelled by exact rationals          *)
(* <<numerator, denominator>>.                                             *)
(***************************************************************************)
EXTENDS Integers, Sequences, FiniteSets, TLC

VARIABLES
    retryPolicy,  \* Client.retryPolicy
    active,       \* the calls of doRequestWithRetry that exist in this behaviour
    call,         \* per call: the locals of doRequestWithRetry, the objects it
                  \* points to, and the trace of what it did
    pure,         \* the arguments and result of a function under evaluation
    pkgDefault,   \* the package-level variable DefaultRetryPolicy
    client        \* whether the Client exists, and its apiKey field

vars == <<retryPolicy, active, call, pure, pkgDefault, client>>

----------------------------------------------------------------------------
(* Bounds of the model *)

MaxRetriesBound == 3      \* policies have MaxRetries in -1..MaxRetriesBound
NumCalls == 2             \* call identifiers 1..NumCalls
SmallMaxBackoff == 250    \* a MaxBackoff the exponential growth reaches

(* Program constants: DefaultRetryPolicy, in milliseconds *)
DefaultMaxRetries == 3
DefaultInitialBackoff == 100
DefaultMaxBackoff == 10000

AllCalls == 1..NumCalls

----------------------------------------------------------------------------
(* Errors.  An error value is the chain of error objects reached by        *)
(* repeated Unwrap, outermost first; the nil error is the empty chain.     *)

NilErr == <<>>

\* What one error object contributes to Error(): wrappers prefix the text of
\* the error they wrap.
LayerText(layer) ==
    CASE layer = "url.Error"                      -> "Post \"URL\": "
      [] layer = "net.OpError"                    -> "dial tcp ADDR: "
      [] layer = "os.SyscallError"                -> "connect: "
      [] layer = "ECONNREFUSED"                   -> "connection refused"
      [] layer = "net.DNSError"                   -> "lookup HOST: no such host"
      [] layer = "context.DeadlineExceeded"       -> "context deadline exceeded"
      [] layer = "context.Canceled"               -> "context canceled"
      [] layer = "http.timeoutError"              -> "(Client.Timeout exceeded while awaiting headers)"
      [] layer = "http.contentLengthMismatch"     -> "http: ContentLength=N with Body length 0"
      [] layer = "http.redirectLimit"             -> "stopped after 10 redirects"
      [] layer = "fmt.wrapError"                  -> "wrapped: "
      [] layer = "errors.New(connection refused)" -> "connection refused"
      [] layer = "errors.New(no such host)"       -> "no such host"
      [] layer = "errors.New(boom)"               -> "boom"

\* err.Error(): the text, as the sequence of its pieces.
ErrorText(err) == [i \in 1..Len(err) |-> LayerText(err[i])]

\* errors.Is on one error object: equality with the target, or the
\* object's own Is method (the error net/http builds when Client.Timeout
\* expires reports itself as context.DeadlineExceeded).
LayerIs(layer, target) ==
    \/ layer = target
    \/ layer = "http.timeoutError" /\ target = "context.DeadlineExceeded"

\* Mutant of ErrorsIs: compares the error itself and does not unwrap it.
ErrorsIsShallow(err, target) ==
    err # NilErr /\ LayerIs(Head(err), target)

\* errors.Is: walks the Unwrap chain.
RECURSIVE ErrorsIs(_, _)
ErrorsIs(err, target) ==
    IF err = NilErr THEN FALSE
    ELSE LayerIs(Head(err), target) \/ ErrorsIs(Tail(err), target)

\* http.Client.Do wraps every error it returns in a *url.Error.
UrlError(inner) == <<"url.Error">> \o inner

ConnRefusedErr == UrlError(<<"net.OpError", "os.SyscallError", "ECONNREFUSED">>)
NoSuchHostErr  == UrlError(<<"net.OpError", "net.DNSError">>)
TimeoutErr     == UrlError(<<"http.timeoutError">>)
MismatchErr    == UrlError(<<"http.contentLengthMismatch">>)
RedirectErr    == UrlError(<<"http.redirectLimit">>)

----------------------------------------------------------------------------
(* ShouldRetry *)

\* Mutant of ShouldRetry: deadline and cancellation errors are not retried.
ShouldRetryNoDeadline(statusCode, err) ==
    IF /\ err # NilErr
       /\ \/ ErrorText(err) = <<"connection refused">>
          \/ ErrorText(err) = <<"no such host">>
    THEN TRUE
    ELSE IF statusCode >= 500 /\ statusCode # 501 THEN TRUE
    ELSE IF statusCode = 429 THEN TRUE
    ELSE FALSE

ShouldRetry(statusCode, err) ==
    IF /\ err # NilErr
       /\ \/ ErrorsIs(err, "context.DeadlineExceeded")
          \/ ErrorsIs(err, "context.Canceled")
          \/ ErrorText(err) = <<"connection refused">>
          \/ ErrorText(err) = <<"no such host">>
    THEN TRUE
    ELSE IF statusCode >= 500 /\ statusCode # 501 THEN TRUE
    ELSE IF statusCode = 429 THEN TRUE
    ELSE FALSE

----------------------------------------------------------------------------
(* calculateBackoff.  rnd is the value rand.Float64() returns, a rational  *)
(* in [0, 1); it is read only when the policy's Jitter is positive.        *)

RECURSIVE IntPow(_, _)
IntPow(b, n) == IF n <= 0 THEN 1 ELSE b * IntPow(b, n - 1)

\* time.Duration(f): conversion of a float to an integer truncates toward zero.
Truncate(num, den) ==
    IF num >= 0 THEN num \div den ELSE -((-num) \div den)

\* The exponential value before jitter: InitialBackoff * BackoffFactor^attempt.
BaseBackoff(policy, attempt) ==
    << policy.InitialBackoff * IntPow(policy.BackoffFactor[1], attempt),
       IntPow(policy.BackoffFactor[2], attempt) >>

\* Mutant of JitteredBackoff: the draw is applied whole, not scaled by Jitter.
JitteredBackoffUnscaled(policy, attempt, rnd) ==
    LET base == BaseBackoff(policy, attempt)
    IN  << base[1] * (rnd[2] + rnd[1]), base[2] * rnd[2] >>

\* The value after the jitter step and before the cap.
JitteredBackoff(policy, attempt, rnd) ==
    LET base == BaseBackoff(policy, attempt)
    IN  IF policy.Jitter[1] > 0
        THEN \* jitter := rnd * Jitter ; backoff = backoff * (1 + jitter)
             << base[1] * (rnd[2] * policy.Jitter[2] + rnd[1] * policy.Jitter[1]),
                base[2] * (rnd[2] * policy.Jitter[2]) >>
        ELSE base

\* Mutant of calculateBackoff: the cap at MaxBackoff is missing.
calculateBackoffNoCap(policy, attempt, rnd) ==
    LET raw == JitteredBackoff(policy, attempt, rnd)
    IN  Truncate(raw[1], raw[2])

\* Mutant of calculateBackoff: the exponent is one too large.
calculateBackoffNextAttempt(policy, attempt, rnd) ==
    LET raw == JitteredBackoff(policy, attempt + 1, rnd)
        capped == IF raw[1] > policy.MaxBackoff * raw[2]
                  THEN <<policy.MaxBackoff, 1>>
                  ELSE raw
    IN  Truncate(capped[1], capped[2])

calculateBackoff(policy, attempt, rnd) ==
    LET raw == JitteredBackoff(policy, attempt, rnd)
        capped == IF raw[1] > policy.MaxBackoff * raw[2]
                  THEN <<policy.MaxBackoff, 1>>
                  ELSE raw
    IN  Truncate(capped[1], capped[2])

\* The draws of rand.Float64() the model considers.
RandDraws == { <<0, 1>>, <<1, 2>>, <<9, 10>> }

----------------------------------------------------------------------------
(* Requests.  A request is its header map and a reference to its body      *)
(* reader; the reader's position is kept in the call state, so that two    *)
(* requests holding the same reference share it.                           *)

\* fmt.Sprintf("%d", n) for n >= 0: the decimal digits.
RECURSIVE FormatInt(_)
FormatInt(n) == IF n < 10 THEN <<n>> ELSE Append(FormatInt(n \div 10), n % 10)

\* Header.Set (header values are kept as sequences of text pieces)
HeaderSet(h, key, value) ==
    [k \in DOMAIN h \cup {key} |-> IF k = key THEN value ELSE h[k]]

\* The request a CRUD operation builds: http.NewRequest("POST", url,
\* bytes.NewBuffer(body)) and the Content-Type header.
TemplateRequest ==
    [ Header |-> [k \in {"Content-Type"} |-> <<"application/json">>],
      Body   |-> "buf" ]

\* Mutant of Clone: the clone's Header field is the original's map.
CloneSharingHeader(req) ==
    [ Header |-> req.Header, Body |-> req.Body, HeaderMap |-> "original" ]

\* http.Request.Clone: the header map is copied, the Body field is copied
\* as it is (the clone reads from the same reader as the original).
\* HeaderMap tells which map object the clone's Header field refers to.
Clone(req) == [ Header |-> req.Header, Body |-> req.Body, HeaderMap |-> "copy" ]

----------------------------------------------------------------------------
(* http.Client.Do.  The environment decides what the network and the       *)
(* server do with one attempt.                                             *)

ServerStatuses == {200, 404, 429, 501, 503}

EnvBehaviours ==
    {[kind |-> "refused"]}                             \* dial: connection refused
    \cup {[kind |-> "timeout", sent |-> s] : s \in BOOLEAN}
                                                       \* Client.Timeout expires,
                                                       \* before or after the request was written
    \cup {[kind |-> "redirects"]}                      \* the server redirects more than 10 times
    \cup {[kind |-> "respond", status |-> st] : st \in ServerStatuses}

NoResponse == [StatusCode |-> 0, body |-> "none"]

\* The outcome of Do for a request whose body reader is in state `reader`:
\* the response (NoResponse for nil), the error, the reader's state
\* afterwards and what was put on the wire.  A request whose reader is
\* already drained announces ContentLength = N and delivers 0 bytes: on a
\* fresh connection Do fails with the length mismatch; on a reused idle
\* connection the transport rewinds the body with GetBody and sends it.
ClientDo(reader, b, reused) ==
    IF b.kind = "refused"
    THEN [resp |-> NoResponse, err |-> ConnRefusedErr, reader |-> reader, wire |-> "nothing"]
    ELSE IF b.kind = "timeout" /\ ~b.sent
    THEN [resp |-> NoResponse, err |-> TimeoutErr, reader |-> reader, wire |-> "nothing"]
    ELSE IF reader = "drained" /\ ~reused
    THEN [resp |-> NoResponse, err |-> MismatchErr, reader |-> "drained", wire |-> "nothing"]
    ELSE IF b.kind = "timeout"
    THEN [resp |-> NoResponse, err |-> TimeoutErr, reader |-> "drained", wire |-> "complete"]
    ELSE IF b.kind = "redirects"
    THEN [resp |-> [StatusCode |-> 302, body |-> "closedByClient"], err |-> RedirectErr,
          reader |-> "drained", wire |-> "complete"]
    ELSE [resp |-> [StatusCode |-> b.status, body |-> "open"], err |-> NilErr,
          reader |-> "drained", wire |-> "complete"]

----------------------------------------------------------------------------
(* doRequestWithRetry *)

NilResp == 0          \* the nil *http.Response; response i is the i-th attempt's

NotReturned == [returned |-> FALSE, resp |-> NilResp, err |-> NilErr]

\* What a CRUD operation has returned: nothing yet.
NoCrudOutcome == [state |-> "none", kind |-> "", status |-> 0, envelope |-> 0]

\* Mutant of EffectiveKey: the client's key is used whenever it is set.
EffectiveKeyClientFirst(inputKey, clientKey) ==
    IF clientKey = "" THEN inputKey ELSE clientKey

\* The api key the request body carries: the input's ApiKey, or the
\* client's apiKey when the input's is empty.
EffectiveKey(inputKey, clientKey) ==
    IF inputKey = "" THEN clientKey ELSE inputKey

\* json.Marshal of the api key member (tag omitempty): an empty key is left
\* out of the body.
MarshalKey(key) == IF key = "" THEN "omitted" ELSE key

\* A call that does not exist in this behaviour.  op is the CRUD operation
\* the call belongs to ("none": doRequestWithRetry on its own) and crud is
\* what that operation returned; input is the caller's input value and
\* body the api key member of the bytes the request body was built from.
IdleCall ==
    [ pc |-> "idle", attempt |-> 0, resp |-> NilResp, err |-> NilErr,
      req |-> TemplateRequest, reader |-> "unread",
      responses |-> <<>>, sent |-> <<>>, errs |-> <<>>, waits |-> <<>>,
      ret |-> NotReturned,
      op |-> "none", crud |-> NoCrudOutcome,
      input |-> [ApiKey |-> ""], body |-> "client-key" ]

\* A call that has entered doRequestWithRetry: resp and err are nil,
\* attempt is 0, the template's body has not been read.
EnteredCall == [IdleCall EXCEPT !.pc = "loop"]

\* Mutant of IsSuccess: only statuses below 400 leave by the success exit.
IsSuccessBelow400(statusCode, err) ==
    err = NilErr /\ statusCode < 400

\* The test of the success exit.
IsSuccess(statusCode, err) ==
    err = NilErr /\ (statusCode < 500 /\ statusCode # 429)

\* Mutant of CloseBody: the body is left as it is.
CloseBodyForgotten(responses, resp) == responses

\* resp.Body.Close() on the response the variable resp points to.  A body
\* is "open", "closedByExecutor" (closed here) or "closedByClient" (closed
\* inside http.Client.Do before it returned; closing it again changes nothing).
CloseBody(responses, resp) ==
    [responses EXCEPT ![resp] =
        [@ EXCEPT !.body = IF @ = "open" THEN "closedByExecutor" ELSE @]]

\* Mutant of LoopCondition: one iteration too few.
LoopConditionStrict(attempt, policy) == attempt < policy.MaxRetries

\* The loop condition.
LoopCondition(attempt, policy) == attempt <= policy.MaxRetries

\* Mutant of ShouldBreak: leaves the loop only when both conditions hold.
ShouldBreakBoth(statusCode, err, attempt, policy) ==
    ~ShouldRetry(statusCode, err) /\ attempt >= policy.MaxRetries

\* Mutant of ShouldBreak: the attempt bound is off by one.
ShouldBreakOffByOne(statusCode, err, attempt, policy) ==
    ~ShouldRetry(statusCode, err) \/ attempt > policy.MaxRetries

\* The test that leaves the loop after a failed attempt.
ShouldBreak(statusCode, err, attempt, policy) ==
    ~ShouldRetry(statusCode, err) \/ attempt >= policy.MaxRetries

\* return resp, err
Return(s, resp, err) ==
    [s EXCEPT !.pc = "done",
              !.ret = [returned |-> TRUE, resp |-> resp, err |-> err]]

\* One iteration of the loop, from the clone of the request to the success
\* return, the break or the backoff.
Iteration(s, policy, b, reused) ==
    LET cloned   == Clone(s.req)
        reqClone == IF s.attempt > 0
                    THEN [cloned EXCEPT !.Header =
                            HeaderSet(@, "X-Retry-Attempt", FormatInt(s.attempt))]
                    ELSE cloned
        out      == ClientDo(s.reader, b, reused)
        resp     == IF out.resp = NoResponse THEN NilResp ELSE Len(s.responses) + 1
        err      == out.err
        s1       == [s EXCEPT !.resp = resp, !.err = err,
                              \* Header.Set writes to the map reqClone.Header refers to
                              !.req = IF reqClone.HeaderMap = "original"
                                      THEN [@ EXCEPT !.Header = reqClone.Header]
                                      ELSE @,
                              !.reader = out.reader,
                              !.responses = Append(@, out.resp),
                              !.errs = Append(@, err),
                              !.sent = Append(@, [attempt |-> s.attempt,
                                                  Header |-> reqClone.Header,
                                                  body |-> s.reader,
                                                  wire |-> out.wire,
                                                  apiKey |-> IF out.wire = "complete"
                                                             THEN s.body ELSE "nothing"])]
    IN  IF IsSuccess(out.resp.StatusCode, err)
        THEN Return(s1, resp, NilErr)
        ELSE LET statusCode == IF resp # NilResp THEN out.resp.StatusCode ELSE 0
                 s2 == IF resp # NilResp
                       THEN [s1 EXCEPT !.responses = CloseBody(@, resp)]
                       ELSE s1
             IN  IF ShouldBreak(statusCode, err, s.attempt, policy)
                 THEN Return(s2, resp, err)
                 ELSE [s2 EXCEPT !.pc = "sleep"]

NoPure == [fn |-> "none"]

\* The Client NewClient returned, with the apiKey it was given.
BuiltClient == [constructed |-> TRUE, apiKey |-> "client-key"]

\* The policies a client is configured with: DefaultRetryPolicy's backoff
\* values or a slower growth under a small cap, without and with jitter,
\* and every MaxRetries in -1..MaxRetriesBound.
DefaultRetryPolicy ==
    [ MaxRetries     |-> DefaultMaxRetries,
      InitialBackoff |-> DefaultInitialBackoff,
      MaxBackoff     |-> DefaultMaxBackoff,
      BackoffFactor  |-> <<2, 1>>,
      Jitter         |-> <<1, 5>> ]

Policies ==
    { [ MaxRetries     |-> m,
        InitialBackoff |-> DefaultInitialBackoff,
        MaxBackoff     |-> shape[1],
        BackoffFactor  |-> shape[2],
        Jitter         |-> j ] :
      m \in -1..MaxRetriesBound,
      shape \in { <<DefaultMaxBackoff, <<2, 1>>>>, <<SmallMaxBackoff, <<3, 2>>>> },
      j \in { <<0, 1>>, <<1, 5>> } }

Init ==
    /\ retryPolicy \in Policies
    /\ active = {1}
    /\ call = [c \in AllCalls |-> IF c \in active THEN EnteredCall ELSE IdleCall]
    /\ pure = NoPure
    /\ pkgDefault = DefaultRetryPolicy
    /\ client = BuiltClient

\* Lines 226-252: the loop condition holds; one attempt and its classification.
Attempt(c) ==
    /\ c \in active
    /\ call[c].pc = "loop"
    /\ LoopCondition(call[c].attempt, retryPolicy)
    /\ \E b \in EnvBehaviours, reused \in BOOLEAN :
         call' = [call EXCEPT ![c] = Iteration(call[c], retryPolicy, b, reused)]
    /\ UNCHANGED <<retryPolicy, active, pure, pkgDefault, client>>

\* Mutant of Backoff: the attempt counter is one counter of the client,
\* shared by the calls in progress.
BackoffSharedCounter(c) ==
    /\ c \in active
    /\ call[c].pc = "sleep"
    /\ \E rnd \in (IF retryPolicy.Jitter[1] > 0 THEN RandDraws ELSE {<<0, 1>>}) :
         call' = [d \in AllCalls |->
                    IF d = c
                    THEN [call[d] EXCEPT !.waits = Append(@, calculateBackoff(retryPolicy, call[c].attempt, rnd)),
                                         !.attempt = @ + 1,
                                         !.pc = "loop"]
                    ELSE IF d \in active /\ ~call[d].ret.returned
                    THEN [call[d] EXCEPT !.attempt = @ + 1]
                    ELSE call[d]]
    /\ UNCHANGED <<retryPolicy, active, pure, pkgDefault, client>>

\* Lines 255-256 and the loop's attempt++.
Backoff(c) ==
    /\ c \in active
    /\ call[c].pc = "sleep"
    /\ \E rnd \in (IF retryPolicy.Jitter[1] > 0 THEN RandDraws ELSE {<<0, 1>>}) :
         call' = [call EXCEPT ![c] =
                    [@ EXCEPT !.waits = Append(@, calculateBackoff(retryPolicy, call[c].attempt, rnd)),
                              !.attempt = @ + 1,
                              !.pc = "loop"]]
    /\ UNCHANGED <<retryPolicy, active, pure, pkgDefault, client>>

\* Line 226 with the loop condition false, then line 260.
LoopExit(c) ==
    /\ c \in active
    /\ call[c].pc = "loop"
    /\ ~LoopCondition(call[c].attempt, retryPolicy)
    /\ call' = [call EXCEPT ![c] = Return(@, call[c].resp, call[c].err)]
    /\ UNCHANGED <<retryPolicy, active, pure, pkgDefault, client>>

Next == \E c \in AllCalls : Attempt(c) \/ Backoff(c) \/ LoopExit(c)

Spec == Init /\ [][Next]_vars

----------------------------------------------------------------------------
(* Concurrent calls.  SpecConc runs two calls of doRequestWithRetry on one *)
(* client, interleaved step by step; each call has its own request.        *)

ConcMaxRetries == 1       \* SpecConc's policies have MaxRetries in -1..ConcMaxRetries

ConcPolicies ==
    { [DefaultRetryPolicy EXCEPT !.MaxRetries = m, !.Jitter = <<0, 1>>] :
        m \in -1..ConcMaxRetries }

InitConc ==
    /\ retryPolicy \in ConcPolicies
    /\ active = {1, 2}
    /\ call = [c \in AllCalls |-> IF c \in active THEN EnteredCall ELSE IdleCall]
    /\ pure = NoPure
    /\ pkgDefault = DefaultRetryPolicy
    /\ client = BuiltClient

SpecConc == InitConc /\ [][Next]_vars

----------------------------------------------------------------------------
(* Total backoff time.  SpecWait runs one call under policies whose        *)
(* MaxBackoff is zero, below InitialBackoff, or reached by the second wait.*)

WaitMaxRetries == 2       \* SpecWait's policies have MaxRetries in -1..WaitMaxRetries
LowMaxBackoff == 50       \* a MaxBackoff below InitialBackoff
MidMaxBackoff == 150      \* a MaxBackoff between the first and the second wait

WaitPolicies ==
    { [DefaultRetryPolicy EXCEPT !.MaxRetries = m, !.MaxBackoff = mb, !.Jitter = j] :
        m \in -1..WaitMaxRetries,
        mb \in {0, LowMaxBackoff, MidMaxBackoff},
        j \in { <<0, 1>>, <<1, 5>> } }

InitWait ==
    /\ retryPolicy \in WaitPolicies
    /\ active = {1}
    /\ call = [c \in AllCalls |-> IF c \in active THEN EnteredCall ELSE IdleCall]
    /\ pure = NoPure
    /\ pkgDefault = DefaultRetryPolicy
    /\ client = BuiltClient

SpecWait == InitWait /\ [][Next]_vars

----------------------------------------------------------------------------
(* The CRUD operations.  SpecCRUD runs one operation of the client from    *)
(* the construction of its request to its return.                          *)

CrudMaxRetries == 1       \* SpecCRUD's policies have MaxRetries in -1..CrudMaxRetries

Operations ==
    { "CreateInfoRequest", "CreateDeleteRequest", "FetchInfoRequest",
      "FetchDeleteRequest", "UpdateInfoRequest", "UpdateDeleteRequest",
      "DeleteInfoRequest", "DeleteRequest", "FetchAllInfoRequests",
      "FetchInfoRequestsByType", "FetchDeleteRequestsByStatus",
      "FetchRequestsByCreator", "FetchDeleteRequestsByCreator" }

\* The operations that send their request with c.doRequestWithRetry(req);
\* the others call c.httpClient.Do(req).
UsesExecutor(op) == op \notin {"FetchDeleteRequest", "UpdateDeleteRequest"}

\* The operations that decode the {statusCode, message, data} envelope and
\* test its statusCode; CreateInfoRequest tests resp.StatusCode a second
\* time instead and decodes the body as the result.
ChecksEnvelope(op) == op # "CreateInfoRequest"

\* The operations that answer an envelope statusCode of 404 with "not found".
ChecksNotFound(op) == op \in {"FetchInfoRequest", "FetchDeleteRequest"}

\* The statusCode field of the envelope in the body of an HTTP 200 response.
EnvelopeStatuses == {200, 404, 500}

\* What the operation returns after the send returned (resp, err); body is
\* the state of resp.Body, status resp.StatusCode and envelope the
\* statusCode field of the body read.
CrudOutcome(op, resp, err, body, status, envelope) ==
    IF err # NilErr
    THEN [state |-> "error", kind |-> "failed to send request", status |-> 0, envelope |-> 0]
    ELSE IF resp = NilResp      \* defer resp.Body.Close() on a nil response
    THEN [state |-> "panic", kind |-> "nil pointer dereference", status |-> 0, envelope |-> 0]
    ELSE IF body # "open"       \* io.ReadAll on a closed body
    THEN [state |-> "error", kind |-> "failed to read response body", status |-> status, envelope |-> 0]
    ELSE IF status # 200
    THEN [state |-> "error", kind |-> "request failed with status", status |-> status, envelope |-> 0]
    ELSE IF ChecksEnvelope(op) /\ ChecksNotFound(op) /\ envelope = 404
    THEN [state |-> "error", kind |-> "not found", status |-> status, envelope |-> envelope]
    ELSE IF ChecksEnvelope(op) /\ envelope # 200
    THEN [state |-> "error", kind |-> "GDPR service returned error", status |-> status, envelope |-> envelope]
    ELSE [state |-> "result", kind |-> "", status |-> status, envelope |-> envelope]

CrudPolicies ==
    { [DefaultRetryPolicy EXCEPT !.MaxRetries = m, !.Jitter = <<0, 1>>] :
        m \in -1..CrudMaxRetries }

\* The ApiKey member of the caller's input, and the apiKey given to NewClient.
InputKeys == {"", "input-key"}
ClientKeys == {"", "client-key"}

InitCRUD ==
    /\ retryPolicy \in CrudPolicies
    /\ active = {1}
    /\ \E o \in Operations, k \in InputKeys :
         call = [c \in AllCalls |->
                   IF c \in active
                   THEN [IdleCall EXCEPT !.pc = "op", !.op = o, !.input = [ApiKey |-> k]]
                   ELSE IdleCall]
    /\ pure = NoPure
    /\ pkgDefault = DefaultRetryPolicy
    /\ \E k \in ClientKeys : client = [BuiltClient EXCEPT !.apiKey = k]

\* The operation fills the ApiKey of its copy of the input, marshals it,
\* builds the request and sets the Content-Type header; it is then about
\* to send it.
BuildRequest(c) ==
    /\ c \in active
    /\ call[c].pc = "op"
    /\ call' = [call EXCEPT ![c] =
                  [@ EXCEPT !.req = TemplateRequest,
                            !.body = MarshalKey(EffectiveKey(call[c].input.ApiKey,
                                                             client.apiKey)),
                            !.reader = "unread",
                            !.pc = IF UsesExecutor(call[c].op) THEN "loop" ELSE "direct"]]
    /\ UNCHANGED <<retryPolicy, active, pure, pkgDefault, client>>

\* resp, err := c.httpClient.Do(req): one send, no retry.
DirectDo(c) ==
    /\ c \in active
    /\ call[c].pc = "direct"
    /\ \E b \in EnvBehaviours :
         LET s    == call[c]
             out  == ClientDo(s.reader, b, FALSE)
             resp == IF out.resp = NoResponse THEN NilResp ELSE Len(s.responses) + 1
         IN  call' = [call EXCEPT ![c] =
                        Return([s EXCEPT !.resp = resp, !.err = out.err,
                                         !.reader = out.reader,
                                         !.responses = Append(@, out.resp),
                                         !.errs = Append(@, out.err),
                                         !.sent = Append(@, [attempt |-> 0,
                                                             Header |-> s.req.Header,
                                                             body |-> s.reader,
                                                             wire |-> out.wire,
                                                             apiKey |-> IF out.wire = "complete"
                                                                        THEN s.body ELSE "nothing"])],
                               resp, out.err)]
    /\ UNCHANGED <<retryPolicy, active, pure, pkgDefault, client>>

\* The rest of the operation: the error test, the deferred Close, the read
\* of the body, the status test, the decoding and the return.
HandleResponse(c) ==
    /\ c \in active
    /\ call[c].op # "none"
    /\ call[c].pc = "done"
    /\ LET s      == call[c]
           r      == s.ret
           hasR   == r.resp # NilResp
           body   == IF hasR THEN s.responses[r.resp].body ELSE "none"
           status == IF hasR THEN s.responses[r.resp].StatusCode ELSE 0
           read   == r.err = NilErr /\ hasR /\ body = "open"
       IN  \E envelope \in (IF read /\ status = 200 THEN EnvelopeStatuses ELSE {0}) :
             call' = [call EXCEPT ![c] =
                        [@ EXCEPT !.pc = "finished",
                                  !.crud = CrudOutcome(s.op, r.resp, r.err, body, status, envelope),
                                  !.responses =
                                      IF read
                                      THEN [@ EXCEPT ![r.resp] = [@ EXCEPT !.body = "closedByCaller"]]
                                      ELSE @]]
    /\ UNCHANGED <<retryPolicy, active, pure, pkgDefault, client>>

NextCRUD ==
    \E c \in AllCalls :
        \/ BuildRequest(c)
        \/ Attempt(c)
        \/ Backoff(c)
        \/ LoopExit(c)
        \/ DirectDo(c)
        \/ HandleResponse(c)

SpecCRUD == InitCRUD /\ [][NextCRUD]_vars

----------------------------------------------------------------------------
(* Construction.  SpecCfg starts before NewClient: the program may assign  *)
(* the package-level DefaultRetryPolicy at any time, constructs the client *)
(* with a list of options and then runs a CRUD operation on it.            *)

MaxOptions == 2           \* NewClient is given at most MaxOptions options

\* The zero value of RetryPolicy.
ZeroPolicy ==
    [ MaxRetries |-> 0, InitialBackoff |-> 0, MaxBackoff |-> 0,
      BackoffFactor |-> <<0, 1>>, Jitter |-> <<0, 1>> ]

\* A policy given to WithRetryPolicy.
CustomPolicy ==
    [ MaxRetries |-> 0, InitialBackoff |-> DefaultInitialBackoff,
      MaxBackoff |-> SmallMaxBackoff, BackoffFactor |-> <<3, 2>>,
      Jitter |-> <<0, 1>> ]

\* The options that touch the retry policy, with their arguments.
Options ==
    { [opt |-> "WithMaxRetries", maxRetries |-> m, policy |-> ZeroPolicy] : m \in {-1, 1} }
    \cup { [opt |-> "WithRetryPolicy", maxRetries |-> 0, policy |-> CustomPolicy] }

OptionSeqs == UNION { [1..n -> Options] : n \in 0..MaxOptions }

\* The values the program assigns to DefaultRetryPolicy.
DefaultValues ==
    { DefaultRetryPolicy,
      [DefaultRetryPolicy EXCEPT !.MaxRetries = 0, !.Jitter = <<0, 1>>] }

\* option(client), on the client's retryPolicy field.
ApplyOption(policy, o) ==
    IF o.opt = "WithRetryPolicy" THEN o.policy
    ELSE [policy EXCEPT !.MaxRetries = o.maxRetries]

\* Mutant of ApplyOptions: the options are applied last to first.
RECURSIVE ApplyOptionsReversed(_, _)
ApplyOptionsReversed(policy, opts) ==
    IF opts = <<>> THEN policy
    ELSE ApplyOption(ApplyOptionsReversed(policy, Tail(opts)), Head(opts))

\* for _, option := range options { option(client) }
RECURSIVE ApplyOptions(_, _)
ApplyOptions(policy, opts) ==
    IF opts = <<>> THEN policy
    ELSE ApplyOptions(ApplyOption(policy, Head(opts)), Tail(opts))

\* The operations SpecCfg runs on the constructed client: one that sends
\* through doRequestWithRetry and one that calls httpClient.Do.
CfgOperations == {"CreateInfoRequest", "FetchDeleteRequest"}

InitCfg ==
    /\ pkgDefault = DefaultRetryPolicy
    /\ client = [constructed |-> FALSE, apiKey |-> ""]
    /\ retryPolicy = ZeroPolicy
    /\ active = {}
    /\ call = [c \in AllCalls |-> IdleCall]
    /\ pure = NoPure

\* The program assigns another value to the package-level variable.
AssignDefault ==
    /\ \E p \in DefaultValues \ {pkgDefault} : pkgDefault' = p
    /\ UNCHANGED <<retryPolicy, active, call, pure, client>>

\* NewClient(baseURL, apiKey, options...): the struct literal copies
\* DefaultRetryPolicy, then the options are applied in argument order.
NewClient ==
    /\ ~client.constructed
    /\ \E opts \in OptionSeqs :
         /\ retryPolicy' = ApplyOptions(pkgDefault, opts)
         /\ pure' = [fn |-> "NewClient", default |-> pkgDefault, options |-> opts]
    /\ client' = BuiltClient
    /\ UNCHANGED <<active, call, pkgDefault>>

\* The program calls a CRUD operation on the client; calls are numbered in
\* the order they start and one call is followed.
StartCall(c) ==
    /\ client.constructed
    /\ active = {}
    /\ c = 1
    /\ active' = {c}
    /\ \E o \in CfgOperations :
         call' = [call EXCEPT ![c] = [IdleCall EXCEPT !.pc = "op", !.op = o]]
    /\ UNCHANGED <<retryPolicy, pure, pkgDefault, client>>

NextCfg ==
    \/ AssignDefault
    \/ NewClient
    \/ \E c \in AllCalls :
          \/ StartCall(c)
          \/ BuildRequest(c)
          \/ Attempt(c)
          \/ Backoff(c)
          \/ LoopExit(c)
          \/ DirectDo(c)
          \/ HandleResponse(c)

SpecCfg == InitCfg /\ [][NextCfg]_vars

----------------------------------------------------------------------------
(* ShouldRetry as a pure function: SpecSR draws a status code and an error *)
(* and evaluates it.  No call of doRequestWithRetry exists in SpecSR.      *)

StatusCodeInputs == 0..999

ErrorInputs ==
    { NilErr,
      <<"context.DeadlineExceeded">>,
      <<"context.Canceled">>,
      UrlError(<<"context.DeadlineExceeded">>),
      UrlError(<<"context.Canceled">>),
      <<"fmt.wrapError", "url.Error", "context.DeadlineExceeded">>,
      <<"fmt.wrapError", "context.Canceled">>,
      TimeoutErr,
      ConnRefusedErr,
      NoSuchHostErr,
      <<"errors.New(connection refused)">>,
      <<"errors.New(no such host)">>,
      <<"fmt.wrapError", "errors.New(connection refused)">>,
      MismatchErr,
      RedirectErr,
      <<"errors.New(boom)">> }

InitSR ==
    /\ pkgDefault = DefaultRetryPolicy
    /\ client = BuiltClient
    /\ retryPolicy = DefaultRetryPolicy
    /\ active = {}
    /\ call = [c \in AllCalls |-> IdleCall]
    /\ pure \in [ fn : {"ShouldRetry"}, state : {"arg"},
                  statusCode : StatusCodeInputs, err : ErrorInputs,
                  result : {FALSE} ]

EvalShouldRetry ==
    /\ pure.fn = "ShouldRetry"
    /\ pure.state = "arg"
    /\ pure' = [pure EXCEPT !.state = "result",
                            !.result = ShouldRetry(pure.statusCode, pure.err)]
    /\ UNCHANGED <<retryPolicy, active, call, pkgDefault, client>>

NextSR == EvalShouldRetry

SpecSR == InitSR /\ [][NextSR]_vars

----------------------------------------------------------------------------
(* calculateBackoff as a pure function: SpecCB draws a policy of the       *)
(* configuration surface (InitialBackoff > 0, MaxBackoff >= InitialBackoff,*)
(* BackoffFactor > 1, Jitter in [0, 1]) and evaluates calculateBackoff for *)
(* the attempt indices 0, 1, 2, ... in turn, each with a draw of           *)
(* rand.Float64().                                                         *)

MaxAttemptIndex == 4

BackoffPolicies ==
    { p \in [ MaxRetries     : {DefaultMaxRetries},
              InitialBackoff : {1, DefaultInitialBackoff},
              MaxBackoff     : {1, DefaultInitialBackoff, SmallMaxBackoff, DefaultMaxBackoff},
              BackoffFactor  : {<<2, 1>>, <<3, 2>>},
              Jitter         : {<<0, 1>>, <<1, 5>>, <<1, 2>>, <<1, 1>>} ] :
        p.MaxBackoff >= p.InitialBackoff }

InitCB ==
    /\ pkgDefault = DefaultRetryPolicy
    /\ client = BuiltClient
    /\ retryPolicy \in BackoffPolicies
    /\ active = {}
    /\ call = [c \in AllCalls |-> IdleCall]
    /\ pure = [ fn |-> "calculateBackoff", state |-> "start", attempt |-> 0,
                rnd |-> <<0, 1>>, raw |-> <<0, 1>>, result |-> 0, prev |-> 0 ]

\* c.calculateBackoff(attempt) for the next attempt index; raw is the value
\* of the local backoff before the cap, prev the result for the index before.
EvalCalculateBackoff ==
    /\ pure.fn = "calculateBackoff"
    /\ LET i == IF pure.state = "start" THEN 0 ELSE pure.attempt + 1
       IN  /\ i <= MaxAttemptIndex
           /\ \E rnd \in RandDraws :
                pure' = [ fn |-> "calculateBackoff", state |-> "result",
                          attempt |-> i, rnd |-> rnd,
                          raw |-> JitteredBackoff(retryPolicy, i, rnd),
                          result |-> calculateBackoff(retryPolicy, i, rnd),
                          prev |-> pure.result ]
    /\ UNCHANGED <<retryPolicy, active, call, pkgDefault, client>>

NextCB == EvalCalculateBackoff

SpecCB == InitCB /\ [][NextCB]_vars

----------------------------------------------------------------------------
(* Vocabulary of the properties *)

\* The number of attempts call c has completed.
Attempts(c) == Len(call[c].responses)

HasResponse(c, i) == call[c].responses[i] # NoResponse

\* The pointer Do returned for attempt number i (1-based): nil or response i.
RespOf(c, i) == IF HasResponse(c, i) THEN i ELSE NilResp

\* The status code the loop classifies attempt i by.
StatusOf(c, i) == call[c].responses[i].StatusCode

\* Attempt i came back with no transport error and a status < 500, # 429.
SuccessAt(c, i) ==
    /\ call[c].errs[i] = NilErr
    /\ HasResponse(c, i)
    /\ StatusOf(c, i) < 500
    /\ StatusOf(c, i) # 429

\* Attempt i came back with no transport error and a status the policy retries.
RetryableStatusAt(c, i) ==
    /\ call[c].errs[i] = NilErr
    /\ HasResponse(c, i)
    /\ StatusOf(c, i) \in {429, 503}

Returned(c) == call[c].pc = "done" /\ call[c].ret.returned

NoDraw == <<0, 1>>

----------------------------------------------------------------------------
(* Properties of doRequestWithRetry (checked under Spec) *)

\* C1: an attempt that completes with no transport error and a status < 500
\* other than 429 is the last attempt; the call has returned exactly that
\* response with a nil error, with no backoff after it and with the body
\* still open.  Conversely, a response returned with a nil error and an open
\* body is such a success response of the last attempt.
C1_SuccessExit ==
    \A c \in active :
      /\ \A i \in 1..Attempts(c) :
            SuccessAt(c, i) =>
              /\ i = Attempts(c)
              /\ Returned(c)
              /\ call[c].ret.resp = i
              /\ call[c].ret.err = NilErr
              /\ call[c].responses[i].body = "open"
              /\ Len(call[c].waits) = i - 1
      /\ ( /\ Returned(c)
           /\ call[c].ret.resp # NilResp
           /\ call[c].ret.err = NilErr
           /\ call[c].responses[call[c].ret.resp].body = "open" )
         => ( call[c].ret.resp = Attempts(c) /\ SuccessAt(c, Attempts(c)) )

\* C1 witness: a retry (the second attempt) succeeded with a 4xx status and
\* was returned.
C1_Witness ==
    \E c \in active :
      /\ Returned(c)
      /\ Attempts(c) = 2
      /\ SuccessAt(c, 2)
      /\ StatusOf(c, 2) = 404
      /\ call[c].ret.resp = 2

\* C2: with jitter 0, if attempts 0..k-1 were answered with a retryable
\* status and attempt k with a success status, the call returns the
\* attempt-k response after exactly k waits, the wait before attempt i+1
\* being calculateBackoff(i); with MaxRetries 3, InitialBackoff 100 ms,
\* factor 2, MaxBackoff 10 s and k = 3 the waits are 100, 200, 400 ms.
C2_RetryThenSuccess ==
    \A c \in active :
      ( /\ retryPolicy.Jitter[1] = 0
        /\ Attempts(c) >= 1
        /\ \A i \in 1..(Attempts(c) - 1) : RetryableStatusAt(c, i)
        /\ SuccessAt(c, Attempts(c)) )
      => /\ Returned(c)
         /\ call[c].ret.resp = Attempts(c)
         /\ call[c].ret.err = NilErr
         /\ Len(call[c].waits) = Attempts(c) - 1
         /\ \A i \in 1..Len(call[c].waits) :
              call[c].waits[i] = calculateBackoff(retryPolicy, i - 1, NoDraw)
         /\ ( /\ retryPolicy.MaxRetries = 3
              /\ retryPolicy.InitialBackoff = 100
              /\ retryPolicy.BackoffFactor = <<2, 1>>
              /\ retryPolicy.MaxBackoff = 10000
              /\ Attempts(c) = 4 )
            => call[c].waits = <<100, 200, 400>>

\* C2 witness: scenario A has happened: 503, 503, 503, 200 under the default
\* backoff values without jitter, and the 200 was returned after 3 waits.
C2_Witness ==
    \E c \in active :
      /\ retryPolicy.Jitter[1] = 0
      /\ retryPolicy.MaxRetries = 3
      /\ retryPolicy.MaxBackoff = 10000
      /\ Returned(c)
      /\ Attempts(c) = 4
      /\ \A i \in 1..3 : StatusOf(c, i) = 503 /\ call[c].errs[i] = NilErr
      /\ StatusOf(c, 4) = 200
      /\ call[c].ret.resp = 4
      /\ call[c].waits = <<100, 200, 400>>

\* C3 (as claimed): every response the call returns has a body the executor
\* has not closed, and the executor closes a body only of an attempt that is
\* followed by another attempt.
C3_ReturnedBodyNotClosed ==
    \A c \in active :
      /\ ( Returned(c) /\ call[c].ret.resp # NilResp )
         => call[c].responses[call[c].ret.resp].body # "closedByExecutor"
      /\ \A i \in 1..Attempts(c) :
            call[c].responses[i].body = "closedByExecutor"
            => ( i < Attempts(c) \/ call[c].pc = "sleep" )

\* C4: an attempt whose outcome ShouldRetry classifies as not retryable is
\* the last attempt: the call has returned that attempt's response and error
\* with no wait after it, whatever attempts remain; a 501 on the first
\* attempt is returned with zero waits and zero retries.
C4_NonRetryableStops ==
    \A c \in active :
      \A i \in 1..Attempts(c) :
        /\ ~ShouldRetry(StatusOf(c, i), call[c].errs[i])
           => /\ i = Attempts(c)
              /\ Returned(c)
              /\ call[c].ret.resp = RespOf(c, i)
              /\ call[c].ret.err = call[c].errs[i]
              /\ Len(call[c].waits) = i - 1
        /\ ( i = 1 /\ StatusOf(c, 1) = 501 /\ call[c].errs[1] = NilErr )
           => /\ Attempts(c) = 1
              /\ Returned(c)
              /\ call[c].ret.resp = 1
              /\ call[c].waits = <<>>

\* C4 witness: a 501 on the first attempt was returned although retries
\* remained.
C4_Witness ==
    \E c \in active :
      /\ retryPolicy.MaxRetries >= 1
      /\ Returned(c)
      /\ Attempts(c) = 1
      /\ StatusOf(c, 1) = 501
      /\ call[c].ret.resp = 1
      /\ call[c].waits = <<>>

\* The outcome of attempt i is one the policy retries.
RetryableAt(c, i) ==
    /\ ~SuccessAt(c, i)
    /\ ShouldRetry(StatusOf(c, i), call[c].errs[i])

\* C5: when a retryable outcome occurs on the attempt with index MaxRetries,
\* the call has returned the outcome of that attempt (its response if it has
\* one, nil otherwise, and its error unchanged), not that of an earlier
\* attempt, and no wait follows the final attempt.
C5_ExhaustedReturnsLast ==
    \A c \in active :
      ( /\ retryPolicy.MaxRetries >= 0
        /\ Attempts(c) = retryPolicy.MaxRetries + 1
        /\ RetryableAt(c, Attempts(c)) )
      => /\ Returned(c)
         /\ call[c].ret.resp = RespOf(c, Attempts(c))
         /\ call[c].ret.err = call[c].errs[Attempts(c)]
         /\ Len(call[c].waits) = retryPolicy.MaxRetries

\* C5 witness: retries were exhausted by a timeout on the final attempt
\* after an earlier attempt had obtained a response; nil and the timeout
\* error were returned.
C5_Witness ==
    \E c \in active :
      /\ retryPolicy.MaxRetries >= 1
      /\ Attempts(c) = retryPolicy.MaxRetries + 1
      /\ Returned(c)
      /\ HasResponse(c, 1)
      /\ ~HasResponse(c, Attempts(c))
      /\ call[c].errs[Attempts(c)] = TimeoutErr
      /\ call[c].ret.resp = NilResp
      /\ call[c].ret.err = TimeoutErr

\* C6: for MaxRetries >= 0 the call makes at least 1 and at most
\* MaxRetries + 1 attempts, with attempt indices 0, 1, 2, ...; it can always
\* take a step until it has returned (every step adds an attempt or a wait,
\* so it terminates), and when it has returned the number of waits is the
\* number of attempts minus one.  With MaxRetries = 0 the first attempt's
\* outcome is returned at once, with no wait.
C6_BoundedAttempts ==
    \A c \in active :
      retryPolicy.MaxRetries >= 0 =>
        /\ Attempts(c) <= retryPolicy.MaxRetries + 1
        /\ Len(call[c].sent) = Attempts(c)
        /\ \A i \in 1..Len(call[c].sent) : call[c].sent[i].attempt = i - 1
        /\ Len(call[c].waits) <= Attempts(c)
        /\ call[c].pc # "done" => ENABLED (Attempt(c) \/ Backoff(c) \/ LoopExit(c))
        /\ Returned(c) =>
             /\ Attempts(c) >= 1
             /\ Len(call[c].waits) = Attempts(c) - 1
        /\ ( retryPolicy.MaxRetries = 0 /\ Attempts(c) >= 1 ) =>
             /\ Returned(c)
             /\ Attempts(c) = 1
             /\ call[c].waits = <<>>
             /\ call[c].ret.resp = RespOf(c, 1)

\* C6 witness: scenario C has happened: MaxRetries = 0, the first attempt
\* was answered 429 and the 429 response was returned with no wait.
C6_Witness ==
    \E c \in active :
      /\ retryPolicy.MaxRetries = 0
      /\ Returned(c)
      /\ Attempts(c) = 1
      /\ StatusOf(c, 1) = 429
      /\ call[c].ret.resp = 1
      /\ call[c].waits = <<>>

\* C7 (as claimed): if every attempt fails with the connection-refused error
\* http.Client.Do delivers, the call makes MaxRetries + 1 attempts, waits
\* MaxRetries times and returns nil and the final error.
C7_ConnRefusedRetried ==
    \A c \in active :
      ( /\ retryPolicy.MaxRetries >= 0
        /\ Returned(c)
        /\ \A i \in 1..Attempts(c) : call[c].errs[i] = ConnRefusedErr )
      => /\ Attempts(c) = retryPolicy.MaxRetries + 1
         /\ Len(call[c].waits) = retryPolicy.MaxRetries
         /\ call[c].ret.resp = NilResp
         /\ call[c].ret.err = ConnRefusedErr

\* C10 (as claimed): every attempt, retries included, issues a request whose
\* body is complete and unread.
C10_RequestBodyUnread ==
    \A c \in active :
      \A i \in 1..Len(call[c].sent) : call[c].sent[i].body = "unread"

\* C13: when an attempt is issued (the call is at the loop head) and during
\* the backoff wait before it, the body of every response obtained so far is
\* closed; a response of an attempt that was followed by another attempt is
\* never open, so at most one response body is open at any time.
C13_BodiesClosedBeforeNextAttempt ==
    \A c \in active :
      /\ call[c].pc \in {"loop", "sleep"} =>
            \A i \in 1..Attempts(c) : call[c].responses[i].body # "open"
      /\ \A i \in 1..(Attempts(c) - 1) :
            /\ call[c].responses[i].body # "open"
            /\ HasResponse(c, i) =>
                 call[c].responses[i].body \in {"closedByExecutor", "closedByClient"}
      /\ Cardinality({i \in 1..Attempts(c) : call[c].responses[i].body = "open"}) <= 1

\* C13 witness: the first attempt's 503 response was closed by the executor
\* and the second attempt has obtained a response whose body is open.
C13_Witness ==
    \E c \in active :
      /\ Attempts(c) = 2
      /\ StatusOf(c, 1) = 503
      /\ call[c].responses[1].body = "closedByExecutor"
      /\ call[c].responses[2].body = "open"

----------------------------------------------------------------------------
(* Properties of ShouldRetry (checked under SpecSR) *)

\* The error is, or wraps, a deadline-exceeded or a cancellation condition.
IsDeadlineOrCancel(err) ==
    \E i \in 1..Len(err) :
      err[i] \in {"context.DeadlineExceeded", "context.Canceled", "http.timeoutError"}

\* The error is, or wraps, a connection-refused or a no-such-host condition.
IsRefusedOrNoHost(err) ==
    \E i \in 1..Len(err) :
      err[i] \in {"ECONNREFUSED", "errors.New(connection refused)",
                  "net.DNSError", "errors.New(no such host)"}

\* C8 (as claimed): with a nil error ShouldRetry is true exactly for the
\* status codes 500..599 other than 501 and for 429.
C8_StatusClassification ==
    ( pure.fn = "ShouldRetry" /\ pure.state = "result" /\ pure.err = NilErr )
    => ( pure.result <=>
           \/ ( pure.statusCode >= 500 /\ pure.statusCode <= 599
                /\ pure.statusCode # 501 )
           \/ pure.statusCode = 429 )

\* C9: ShouldRetry is true for every error that is or wraps deadline-exceeded
\* or cancellation, whatever the status code; for a non-nil error that is
\* none of deadline, cancellation, connection-refused and no-such-host the
\* result is the one the status code alone gives.
C9_DeadlineAndCancel ==
    ( pure.fn = "ShouldRetry" /\ pure.state = "result" ) =>
      /\ IsDeadlineOrCancel(pure.err) => pure.result = TRUE
      /\ ( /\ pure.err # NilErr
           /\ ~IsDeadlineOrCancel(pure.err)
           /\ ~IsRefusedOrNoHost(pure.err) )
         => ( pure.result <=>
                \/ ( pure.statusCode >= 500 /\ pure.statusCode # 501 )
                \/ pure.statusCode = 429 )

\* C9 witness: a deadline-exceeded error wrapped twice, with status 200, was
\* classified retryable.
C9_Witness ==
    /\ pure.fn = "ShouldRetry"
    /\ pure.state = "result"
    /\ pure.err = <<"fmt.wrapError", "url.Error", "context.DeadlineExceeded">>
    /\ pure.statusCode = 200
    /\ pure.result = TRUE

----------------------------------------------------------------------------
(* Properties of calculateBackoff (checked under SpecCB) *)

\* InitialBackoff * BackoffFactor^i as a fraction, written out.
ExpBase(policy, i) ==
    << policy.InitialBackoff * IntPow(policy.BackoffFactor[1], i),
       IntPow(policy.BackoffFactor[2], i) >>

\* min(n/d, MaxBackoff) in whole duration units.
MinWithMax(policy, n, d) ==
    IF n > policy.MaxBackoff * d THEN policy.MaxBackoff ELSE n \div d

CBEvaluated == pure.fn = "calculateBackoff" /\ pure.state = "result"

\* C11: for a policy with InitialBackoff > 0, MaxBackoff >= InitialBackoff,
\* BackoffFactor > 1 and Jitter = 0, calculateBackoff(i) is
\* min(InitialBackoff * BackoffFactor^i, MaxBackoff) (in whole duration
\* units); it is not smaller than calculateBackoff(i - 1), never exceeds
\* MaxBackoff and is never negative.
C11_BackoffNoJitter ==
    ( CBEvaluated /\ retryPolicy.Jitter[1] = 0 ) =>
      LET base == ExpBase(retryPolicy, pure.attempt)
      IN  /\ pure.result = MinWithMax(retryPolicy, base[1], base[2])
          /\ pure.result <= retryPolicy.MaxBackoff
          /\ pure.result >= 0
          /\ pure.attempt > 0 => pure.result >= pure.prev

\* C11 witness: without jitter the growth 100, 150, 225 has reached the cap
\* of 250 at attempt index 3.
C11_Witness ==
    /\ CBEvaluated
    /\ retryPolicy.Jitter[1] = 0
    /\ retryPolicy.InitialBackoff = 100
    /\ retryPolicy.BackoffFactor = <<3, 2>>
    /\ retryPolicy.MaxBackoff = 250
    /\ pure.attempt = 3
    /\ pure.prev = 225
    /\ pure.result = 250

\* C12: with Jitter = j in (0, 1], whatever the draw, the value before the
\* cap lies in [base, base * (1 + j)] with base = InitialBackoff *
\* BackoffFactor^i, and the result is the smaller of that value and
\* MaxBackoff, so it never exceeds MaxBackoff; with Jitter = 0 the result is
\* the same for every draw.
C12_BackoffJitter ==
    CBEvaluated =>
      LET base == ExpBase(retryPolicy, pure.attempt)
          j    == retryPolicy.Jitter
          raw  == pure.raw
      IN  /\ j[1] > 0 =>
                /\ base[1] * raw[2] <= raw[1] * base[2]
                /\ raw[1] * base[2] * j[2] <= base[1] * (j[2] + j[1]) * raw[2]
                /\ pure.result = MinWithMax(retryPolicy, raw[1], raw[2])
                /\ pure.result <= retryPolicy.MaxBackoff
          /\ j[1] = 0 =>
                pure.result = MinWithMax(retryPolicy, base[1], base[2])

\* C12 witness: with Jitter 0.2 and the draw 0.9 the value before the cap is
\* 118, strictly between base 100 and 120, and is the result.
C12_Witness ==
    /\ CBEvaluated
    /\ retryPolicy.Jitter = <<1, 5>>
    /\ retryPolicy.InitialBackoff = 100
    /\ retryPolicy.MaxBackoff = 10000
    /\ pure.attempt = 0
    /\ pure.rnd = <<9, 10>>
    /\ pure.result = 118


----------------------------------------------------------------------------
(* Properties of the CRUD operations, checked under SpecCRUD.              *)

\* The operation of call c has returned (or panicked).
Finished(c) == call[c].pc = "finished"

\* The send of call c returned a response and no error.
SendGaveResponse(c) ==
    /\ call[c].ret.returned
    /\ call[c].ret.err = NilErr
    /\ call[c].ret.resp # NilResp

\* The HTTP status of the response the send of call c returned.
ReturnedStatus(c) == call[c].responses[call[c].ret.resp].StatusCode

\* C14: for every CRUD operation, an HTTP 200 response whose envelope
\* carries a statusCode other than 200 makes the operation return an error
\* raised by the CRUD layer and no result; CreateInfoRequest included.
C14_EnvelopeErrorSurfaced ==
    \A c \in active :
        ( /\ Finished(c)
          /\ SendGaveResponse(c)
          /\ ReturnedStatus(c) = 200
          /\ call[c].crud.envelope \in EnvelopeStatuses \ {200} )
        => /\ call[c].crud.state = "error"
           /\ call[c].crud.kind \in {"not found", "GDPR service returned error"}

\* C15: when the executor gives up with a response (retries exhausted on
\* 5xx/429, or a 501), the operation built on it reads the body and returns
\* "request failed with status N" with N the status of that response, not an
\* error from reading a closed body.
C15_GiveUpResponseUsable ==
    \A c \in active :
        ( /\ Finished(c)
          /\ UsesExecutor(call[c].op)
          /\ SendGaveResponse(c)
          /\ ReturnedStatus(c) \in {429, 501, 503} )
        => /\ call[c].crud.state = "error"
           /\ call[c].crud.kind = "request failed with status"
           /\ call[c].crud.status = ReturnedStatus(c)

\* C18: every CRUD operation sends through the executor: when the first
\* outcome is a 503 and the policy allows a retry, the operation does not
\* return after that single attempt, and a 503 followed by a 200 with a 200
\* envelope yields the result.
C18_EveryOperationRetries ==
    \A c \in active :
        ( /\ Finished(c)
          /\ retryPolicy.MaxRetries >= 1
          /\ Attempts(c) >= 1
          /\ RetryableStatusAt(c, 1)
          /\ StatusOf(c, 1) = 503 )
        => /\ Attempts(c) >= 2
           /\ ( Attempts(c) = 2 /\ SuccessAt(c, 2) /\ StatusOf(c, 2) = 200
                /\ call[c].crud.envelope = 200
                => call[c].crud.state = "result" )


----------------------------------------------------------------------------
(* Properties of concurrent calls, checked under SpecConc.                 *)

\* What call c returned and how it got there is the function of the policy
\* and of the outcomes of its own attempts that the loop computes.
OwnHistory(c) ==
    LET s == call[c]
    IN  /\ \A i \in 1..Len(s.sent) : s.sent[i].attempt = i - 1
        /\ \A i \in 1..Len(s.waits) :
               s.waits[i] = calculateBackoff(retryPolicy, i - 1, NoDraw)
        /\ Len(s.waits) = s.attempt
        /\ Attempts(c) \in {s.attempt, s.attempt + 1}
        /\ (s.ret.returned /\ Attempts(c) >= 1) =>
               /\ s.ret.resp = RespOf(c, Attempts(c))
               /\ s.ret.err = s.errs[Attempts(c)]

\* Two calls whose attempts had the same outcomes so far.
SameOutcomes(c, d) ==
    /\ call[c].errs = call[d].errs
    /\ Attempts(c) = Attempts(d)
    /\ \A i \in 1..Attempts(c) : StatusOf(c, i) = StatusOf(d, i)

\* A step of one call leaves every other call's state and the client's
\* retry policy as they were.
StepIsLocal ==
    /\ retryPolicy' = retryPolicy
    /\ \A c \in active :
           call'[c] # call[c] => \A d \in AllCalls \ {c} : call'[d] = call[d]

----------------------------------------------------------------------------
(* Further properties of doRequestWithRetry, checked under Spec.           *)

\* C19: under every policy the options can configure (negative MaxRetries
\* included) a call that has returned has issued at least one attempt and
\* has not returned a nil response together with a nil error.
C19_AtLeastOneAttempt ==
    \A c \in active :
        Returned(c) =>
            /\ Attempts(c) >= 1
            /\ ~(call[c].ret.resp = NilResp /\ call[c].ret.err = NilErr)

\* Every attempt of call c so far failed with a deadline-exceeded or a
\* cancellation error.
AllDeadlineOrCancel(c) ==
    /\ Attempts(c) >= 1
    /\ \A i \in 1..Attempts(c) :
           call[c].errs[i] # NilErr /\ IsDeadlineOrCancel(call[c].errs[i])

\* C20: the loop has no overall deadline and does not react to cancellation:
\* a call whose every attempt fails with a deadline-exceeded or cancellation
\* error returns only after MaxRetries + 1 attempts, has waited the full
\* computed backoff after each attempt but the last, and returns the final
\* error with no response.
C20_NoOverallDeadline ==
    \A c \in active :
        (Returned(c) /\ AllDeadlineOrCancel(c)) =>
            /\ Attempts(c) = retryPolicy.MaxRetries + 1
            /\ Len(call[c].waits) = retryPolicy.MaxRetries
            /\ \A i \in 1..Len(call[c].waits) :
                   \E rnd \in (IF retryPolicy.Jitter[1] > 0 THEN RandDraws ELSE {NoDraw}) :
                       call[c].waits[i] = calculateBackoff(retryPolicy, i - 1, rnd)
            /\ call[c].ret.resp = NilResp
            /\ call[c].ret.err = call[c].errs[Attempts(c)]

\* C20 witness: with MaxRetries >= 2 every attempt timed out and the call
\* has returned the last timeout after all its waits.
C20_Witness ==
    \E c \in active :
      /\ retryPolicy.MaxRetries >= 2
      /\ Returned(c)
      /\ AllDeadlineOrCancel(c)
      /\ Attempts(c) = retryPolicy.MaxRetries + 1
      /\ Len(call[c].waits) = retryPolicy.MaxRetries
      /\ call[c].ret.err = TimeoutErr


\* C21: the request issued at attempt 0 carries no X-Retry-Attempt header,
\* the request issued at attempt a > 0 carries X-Retry-Attempt with the
\* decimal text of a and the template's other headers, and the template
\* request keeps the headers it was built with.
C21_RetryHeaderOnCloneOnly ==
    \A c \in active :
      /\ call[c].req = TemplateRequest
      /\ \A i \in 1..Len(call[c].sent) :
           LET a == call[c].sent[i].attempt
               h == call[c].sent[i].Header
           IN  /\ a = i - 1
               /\ h["Content-Type"] = TemplateRequest.Header["Content-Type"]
               /\ a = 0 => DOMAIN h = {"Content-Type"}
               /\ a > 0 => /\ DOMAIN h = {"Content-Type", "X-Retry-Attempt"}
                           /\ a < 10 => h["X-Retry-Attempt"] = <<a>>

\* C21 witness: a call has issued three attempts; the third carried
\* X-Retry-Attempt: 2 and the first carried none.
C21_Witness ==
    \E c \in active :
      /\ Len(call[c].sent) >= 3
      /\ "X-Retry-Attempt" \notin DOMAIN call[c].sent[1].Header
      /\ call[c].sent[3].Header["X-Retry-Attempt"] = <<2>>
      /\ "X-Retry-Attempt" \notin DOMAIN call[c].req.Header


----------------------------------------------------------------------------
(* Total backoff time, checked under SpecWait.                             *)

RECURSIVE SumSeq(_)
SumSeq(s) == IF s = <<>> THEN 0 ELSE s[1] + SumSeq(Tail(s))

\* The draws calculateBackoff can have read under the client's policy.
DrawsOf(policy) == IF policy.Jitter[1] > 0 THEN RandDraws ELSE {NoDraw}

\* C22: for MaxRetries >= 0 and MaxBackoff >= 0 the call has waited once
\* after each failed attempt that was followed by another attempt, wait
\* number i being calculateBackoff(i - 1), and the total of the waits is at
\* most MaxRetries * MaxBackoff whatever the outcomes and the draws.
C22_TotalBackoffBounded ==
    \A c \in active :
      (retryPolicy.MaxRetries >= 0 /\ retryPolicy.MaxBackoff >= 0) =>
        LET w == call[c].waits
        IN  /\ Len(w) = call[c].attempt
            /\ Len(w) <= retryPolicy.MaxRetries
            /\ Returned(c) => Len(w) = Attempts(c) - 1
            /\ \A i \in 1..Len(w) :
                 /\ ~SuccessAt(c, i)
                 /\ \E rnd \in DrawsOf(retryPolicy) :
                        w[i] = calculateBackoff(retryPolicy, i - 1, rnd)
                 /\ w[i] <= retryPolicy.MaxBackoff
            /\ SumSeq(w) <= retryPolicy.MaxRetries * retryPolicy.MaxBackoff

\* C22 witness: under a MaxBackoff below InitialBackoff a call has used all
\* its retries and its waits add up to exactly MaxRetries * MaxBackoff.
C22_Witness ==
    \E c \in active :
      /\ Returned(c)
      /\ retryPolicy.MaxRetries = 2
      /\ retryPolicy.MaxBackoff = LowMaxBackoff
      /\ Len(call[c].waits) = 2
      /\ SumSeq(call[c].waits) = 2 * LowMaxBackoff


----------------------------------------------------------------------------
(* Properties of the construction, checked under SpecCfg.                  *)

MaxOf(S) == CHOOSE x \in S : \A y \in S : y <= x

\* The policy the options describe: the policy of the last WithRetryPolicy,
\* or the default when there is none, with MaxRetries replaced by the
\* argument of the last WithMaxRetries that comes after it.
ExpectedPolicy(default, opts) ==
    LET rp     == {i \in 1..Len(opts) : opts[i].opt = "WithRetryPolicy"}
        lastRP == IF rp = {} THEN 0 ELSE MaxOf(rp)
        base   == IF lastRP = 0 THEN default ELSE opts[lastRP].policy
        mr     == {i \in (lastRP + 1)..Len(opts) : opts[i].opt = "WithMaxRetries"}
    IN  IF mr = {} THEN base
        ELSE [base EXCEPT !.MaxRetries = opts[MaxOf(mr)].maxRetries]

\* C23: once NewClient has returned, the client's retry policy is the value
\* DefaultRetryPolicy had at construction with the options applied in
\* argument order, and it stays that value: no step of a CRUD call or of the
\* retry loop, and no later assignment to DefaultRetryPolicy, changes it.
C23_PolicyFixedAtConstruction ==
    /\ [](client.constructed =>
            /\ pure.fn = "NewClient"
            /\ retryPolicy = ExpectedPolicy(pure.default, pure.options))
    /\ [][client.constructed => retryPolicy' = retryPolicy]_vars

\* C23 witness: the client was built with WithMaxRetries(1) followed by
\* WithRetryPolicy(CustomPolicy), DefaultRetryPolicy was assigned another
\* value since, a CRUD call has finished, and the policy is CustomPolicy.
C23_Witness ==
    /\ client.constructed
    /\ pure.fn = "NewClient"
    /\ Len(pure.options) = 2
    /\ pure.options[1].opt = "WithMaxRetries"
    /\ pure.options[1].maxRetries = 1
    /\ pure.options[2].opt = "WithRetryPolicy"
    /\ pkgDefault # pure.default
    /\ \E c \in active : Finished(c)
    /\ retryPolicy = CustomPolicy


----------------------------------------------------------------------------
(* The api key of a CRUD call, checked under SpecCRUD.                     *)

\* The key the request body of call c is to carry, as it appears in the body.
KeyInBody(c) ==
    IF call[c].input.ApiKey # "" THEN call[c].input.ApiKey
    ELSE IF client.apiKey # "" THEN client.apiKey
    ELSE "omitted"

====
